---- MODULE Spec2Model ----
(***************************************************************************)
(* Remote flatmap maker (AnatomicMaps/remotemaker).                        *)
(*                                                                         *)
(* The repository holds two controllers called RemoteMaker:                *)
(*   src/remotemaker/__main__.py  submits the job in its constructor,      *)
(*       polls make/log/<process>/<last_log_line+1>, and issues a final    *)
(*       request that deletes the process record on the server;            *)
(*   src/remotemaker/__init__.py  submits the job in run(), polls          *)
(*       make/log/<process>, parses every log line as JSON and latches     *)
(*       the uuid of the 'Mapmaker succeeded' record.                      *)
(* The variable controller says which of the two a behaviour runs.  A      *)
(* controller is one sequential thread; pc is its position.                *)
(*                                                                         *)
(* Spec is the program as src/ has it: __check_websockets() of __init__.py *)
(* returns at once and the status and the log come from the poll loop.     *)
(* SpecWS is the controller of __init__.py with the websocket connection   *)
(* attempted, which makes the else branch of __poll_for_status_and_log     *)
(* reachable.                                                              *)
(*                                                                         *)
(* A log fragment is a string; it is modelled as a sequence of tokens, a   *)
(* token being a newline, a space, or the text of one JSON value.          *)
(***************************************************************************)
EXTENDS Integers, Sequences, FiniteSets

VARIABLES
    controller,     \* "__main__" or "__init__": the file the RemoteMaker comes from
    pc,             \* position of the thread of control
    caller,         \* the call site of the __request in progress
    endpoint,       \* the endpoint of the __request in progress
    retries,        \* __request: local retries
    response,       \* __request: status code of the last response, NoResponse for None
    attempts,       \* requests.get/post calls made by the __request in progress
    timeouts,       \* those of them that raised ConnectTimeout or ReadTimeout
    sleeps,         \* sleep(0.1) calls made by the __request in progress
    status,         \* self.__status
    process,        \* self.__process
    last_log_line,  \* self.__last_log_line (__main__ only)
    poll_time,      \* self.__poll_time
    uuid,           \* self.__uuid (__init__ only)
    log_data,       \* __check_and_print_log: the log of the response handled last,
                    \* '' before the first and once the loop has gone on
    polls,          \* status/log requests issued by the poll loop
    cleanups,       \* requests issued after the poll loop (delete process record)
    error,          \* the exception that left the controller, NoError for none
    result,         \* the value run() returned, NoResult for none
    print_log,      \* self.__print_log (__init__ only)
    printed,        \* what the handling of that response printed: the lines of
                    \* the text (__main__), the records (__init__)
    only_queued,    \* every status the server has reported so far is 'queued'
    websocket,      \* self.__websocket (__init__ only)
    connection,     \* the connection behind it: "none", "open" or "closed"
    closes,         \* calls of close() on that connection
    messages        \* messages received from it

vars == <<controller, pc, caller, endpoint, retries, response, attempts, timeouts,
          sleeps, status, process, last_log_line, poll_time, uuid, log_data, polls,
          cleanups, error, result, print_log, printed, only_queued, websocket,
          connection, closes, messages>>

----------------------------------------------------------------------------
(* Bounds of the model *)

\* longest log fragment, in tokens
MaxLen == 3
\* most status/log requests the poll loop issues in one behaviour
MaxPolls == 3
\* most timed out attempts of one __request
MaxTimeouts == 6
\* most messages received from the websocket after the first
MaxMessages == 2
\* longest log fragment of the behaviours checked for liveness, in tokens
MaxLiveLen == 1

----------------------------------------------------------------------------
(* Constants of the program *)

\* __init__.py
MAX_REQUEST_RETRIES == 5
\* __main__.py
MAX_PROXY_RETRIES == 5
\* __main__.py; __init__.py uses the name (line 96) without defining it
QUEUED_POLL_TIME == 20
RUNNING_POLL_TIME == 1

LOG_ENDPOINT == "make/log"
MAKE_ENDPOINT == "make/map"

QUEUED == "queued"
RUNNING == "running"
TERMINATED == "terminated"
ABORTED == "aborted"
UNKNOWN == "unknown"

\* INITIAL_STATUS with TERMINATED accepted at submission
INITIAL_STATUS_WithTerminated == {QUEUED, RUNNING, TERMINATED}

INITIAL_STATUS == {QUEUED, RUNNING}

\* FINISHED_STATUS without ABORTED
FINISHED_STATUS_NoAborted == {TERMINATED}

FINISHED_STATUS == {TERMINATED, ABORTED}

None == "None"
NoResponse == 0
NoLine == 0
NoError == "NoError"
NoResult == "NoResult"

----------------------------------------------------------------------------
(* Strings: a log fragment as a sequence of tokens *)

NL == "\n"
SP == " "

\* the texts of the JSON values a log line can hold, and a text that is no JSON
JsonTexts == {"S1", "S2", "LV", "MS"}
Garbage == "XX"

Tokens == {NL, SP, Garbage} \cup JsonTexts

\* two records with an empty line between them
Spaced == {<<a, NL, NL, b>> : a, b \in JsonTexts}

\* every fragment of at most MaxLen tokens ('' included), and those of Spaced
Fragments == UNION {[1..n -> Tokens] : n \in 0..MaxLen} \cup Spaced

\* str.strip(): whitespace removed at both ends
IsSpace(c) == c \in {NL, SP}

RECURSIVE LStrip(_)
LStrip(s) ==
    IF s = <<>> THEN s
    ELSE IF IsSpace(Head(s)) THEN LStrip(Tail(s)) ELSE s

RECURSIVE RStrip(_)
RStrip(s) ==
    IF s = <<>> THEN s
    ELSE IF IsSpace(s[Len(s)]) THEN RStrip(SubSeq(s, 1, Len(s) - 1)) ELSE s

Strip(s) == RStrip(LStrip(s))

\* str.split('\n'): the pieces between newlines; '' gives ['']
RECURSIVE Split(_)
Split(s) ==
    IF \A i \in 1..Len(s) : s[i] # NL THEN <<s>>
    ELSE LET i == CHOOSE k \in 1..Len(s) :
                      s[k] = NL /\ \A j \in 1..(k - 1) : s[j] # NL
         IN  <<SubSeq(s, 1, i - 1)>> \o Split(SubSeq(s, i + 1, Len(s)))

\* the value of a JSON text
JsonValue(t) ==
    CASE t = "S1" -> [level |-> "critical", msg |-> "Mapmaker succeeded", uuid |-> "u1"]
      [] t = "S2" -> [level |-> "critical", msg |-> "Mapmaker succeeded", uuid |-> "u2"]
      [] t = "LV" -> [level |-> "info", msg |-> "Mapmaker succeeded", uuid |-> "u3"]
      [] t = "MS" -> [level |-> "critical", msg |-> "Mapmaker failed", uuid |-> "u3"]

\* json.loads(line): whitespace around the one value is skipped; an empty
\* line, a text that is no JSON and a second value after the first are errors
NoSpace(line) == SelectSeq(line, LAMBDA c : ~IsSpace(c))

JsonLoadsOk(line) == Len(NoSpace(line)) = 1 /\ NoSpace(line)[1] \in JsonTexts

JsonLoads(line) == JsonValue(NoSpace(line)[1])

----------------------------------------------------------------------------
(* HTTP *)

\* the status codes a response can carry
StatusCodes == {200, 404, 500, 502, 503, 504}

\* the exceptions requests.get/post raise on a timeout
Timeouts == {"ConnectTimeout", "ReadTimeout"}

\* every 5xx status retried
IsTransient_All5xx(code) == code >= 500

\* response.status_code in [502, 503, 504]
IsTransient(code) == code \in {502, 503, 504}

\* response.raise_for_status() raises HTTPError
IsErrorStatus(code) == code >= 400 /\ code < 600

\* the values of the 'status' field of a response body
StatusValues == {QUEUED, RUNNING, TERMINATED, ABORTED, UNKNOWN, "other"}

\* the values of the 'id' / 'process' field of the job creation response
ProcessIds == {"p1", "p2"}

----------------------------------------------------------------------------
(* State after construction *)

NoEndpoint == [path |-> None, process |-> None, line |-> NoLine]

\* __init__.py: the object is constructed and run() is not yet called.
\* __main__.py: the constructor is about to submit the job.
Init ==
    /\ controller \in {"__main__", "__init__"}
    /\ pc = "start"
    /\ caller = None
    /\ endpoint = NoEndpoint
    /\ retries = 0
    /\ response = NoResponse
    /\ attempts = 0
    /\ timeouts = 0
    /\ sleeps = 0
    /\ status = None
    /\ process = None
    /\ last_log_line = 0
    /\ poll_time = IF controller = "__init__" THEN QUEUED_POLL_TIME ELSE 0
    /\ uuid = None
    /\ log_data = <<>>
    /\ polls = 0
    /\ cleanups = 0
    /\ error = NoError
    /\ result = NoResult
    /\ print_log = FALSE
    /\ printed = <<>>
    /\ only_queued = TRUE
    /\ websocket = None
    /\ connection = "none"
    /\ closes = 0
    /\ messages = 0

----------------------------------------------------------------------------
(* __request: the retry loop *)

\* the loop bound with <= for <
MaxRetries_OffByOne ==
    IF controller = "__init__" THEN MAX_REQUEST_RETRIES + 1 ELSE MAX_PROXY_RETRIES + 1

\* the bound of the while loop of __request
MaxRetries == IF controller = "__init__" THEN MAX_REQUEST_RETRIES ELSE MAX_PROXY_RETRIES

\* entry of __request(endpoint): retries = 0, response = None
BeginRequest(site, ep) ==
    /\ pc' = "request"
    /\ caller' = site
    /\ endpoint' = ep
    /\ retries' = 0
    /\ response' = NoResponse
    /\ attempts' = 0
    /\ timeouts' = 0
    /\ sleeps' = 0

\* what __request keeps between its steps, what the controller keeps of the
\* job, and the rest
locals == <<caller, endpoint, retries, response, attempts, timeouts, sleeps>>
job == <<status, process, last_log_line, poll_time, uuid, only_queued>>
ws == <<websocket, connection, closes, messages>>
setup == <<controller, print_log, ws>>
frame == <<setup, polls, cleanups, error, result>>

\* requests.get/post raises ConnectTimeout or ReadTimeout.
\* __init__.py catches it and continues the loop; retries is not changed.
\* __main__.py does not catch it.
RequestTimeout ==
    /\ pc = "request"
    /\ retries < MaxRetries
    /\ timeouts < MaxTimeouts
    /\ \E t \in Timeouts :
         /\ attempts' = attempts + 1
         /\ timeouts' = timeouts + 1
         /\ IF controller = "__init__"
              THEN UNCHANGED <<pc, error>>
              ELSE pc' = "raised" /\ error' = t
    /\ UNCHANGED <<caller, endpoint, retries, response, sleeps>>
    /\ UNCHANGED <<setup, polls, cleanups, result>>
    /\ UNCHANGED job
    /\ UNCHANGED <<log_data, printed>>

\* requests.get/post returns a response: a status code outside 502, 503, 504
\* breaks the loop, one of them sleeps 0.1 s and counts a retry
RequestResponse ==
    /\ pc = "request"
    /\ retries < MaxRetries
    /\ \E code \in StatusCodes :
         /\ attempts' = attempts + 1
         /\ response' = code
         /\ IF IsTransient(code)
              THEN /\ sleeps' = sleeps + 1
                   /\ retries' = retries + 1
                   /\ pc' = pc
              ELSE /\ pc' = "responded"
                   /\ UNCHANGED <<sleeps, retries>>
    /\ UNCHANGED <<caller, endpoint, timeouts>>
    /\ UNCHANGED frame
    /\ UNCHANGED job
    /\ UNCHANGED <<log_data, printed>>

\* the while condition retries < MAX_..._RETRIES is false
RequestLoopExit ==
    /\ pc = "request"
    /\ ~(retries < MaxRetries)
    /\ pc' = "responded"
    /\ UNCHANGED locals
    /\ UNCHANGED frame
    /\ UNCHANGED job
    /\ UNCHANGED <<log_data, printed>>

\* after the loop: response is None raises IOError('Timed out: No response ...')
\* (__init__.py only), response.raise_for_status() raises HTTPError
RequestRaiseForStatus ==
    /\ pc = "responded"
    /\ response = NoResponse \/ IsErrorStatus(response)
    /\ pc' = "raised"
    /\ error' = IF response = NoResponse THEN "IOError: Timed out" ELSE "HTTPError"
    /\ UNCHANGED locals
    /\ UNCHANGED <<setup, polls, cleanups, result>>
    /\ UNCHANGED job
    /\ UNCHANGED <<log_data, printed>>

\* response.json() raises JSONDecodeError: the body is not JSON
RequestInvalidJson ==
    /\ pc = "responded"
    /\ response # NoResponse
    /\ ~IsErrorStatus(response)
    /\ pc' = "raised"
    /\ error' = "TypeError: Invalid JSON"
    /\ UNCHANGED locals
    /\ UNCHANGED <<setup, polls, cleanups, result>>
    /\ UNCHANGED job
    /\ UNCHANGED <<log_data, printed>>

\* return response.json(): the body is JSON and control is back in the caller,
\* the locals of __request are gone
RequestReturn ==
    /\ pc = "responded"
    /\ response # NoResponse
    /\ ~IsErrorStatus(response)
    /\ pc' = caller
    /\ caller' = None
    /\ endpoint' = NoEndpoint
    /\ retries' = 0
    /\ response' = NoResponse
    /\ attempts' = 0
    /\ timeouts' = 0
    /\ sleeps' = 0
    /\ UNCHANGED frame
    /\ UNCHANGED job
    /\ UNCHANGED <<log_data, printed>>

----------------------------------------------------------------------------
(* Submission *)

\* __main__.py: RemoteMaker.__init__ requests MAKE_ENDPOINT;
\* __init__.py: run(print_log) sets self.__print_log and calls __connect(),
\* which requests MAKE_ENDPOINT
Submit ==
    /\ pc = "start"
    /\ BeginRequest("connect", [path |-> MAKE_ENDPOINT, process |-> None, line |-> NoLine])
    /\ IF controller = "__init__" THEN print_log' \in BOOLEAN ELSE UNCHANGED print_log
    /\ UNCHANGED <<controller, ws, polls, cleanups, error, result>>
    /\ UNCHANGED job
    /\ UNCHANGED <<log_data, printed>>

\* __main__.py, RemoteMaker.__init__ after the request: a status outside
\* INITIAL_STATUS raises, otherwise the process, the log line and the poll
\* time are set; main() then calls run()
MainConnect ==
    /\ controller = "__main__"
    /\ pc = "connect"
    /\ \E st \in StatusValues, id \in ProcessIds :
         /\ status' = st
         /\ only_queued' = (st = QUEUED)
         /\ IF st \notin INITIAL_STATUS
              THEN /\ pc' = "raised"
                   /\ error' = "IOError: Unexpected initial status"
                   /\ UNCHANGED <<process, last_log_line, poll_time>>
              ELSE /\ process' = id
                   /\ last_log_line' = 0
                   /\ poll_time' = IF st = QUEUED THEN QUEUED_POLL_TIME
                                                  ELSE RUNNING_POLL_TIME
                   /\ pc' = "loop"
                   /\ error' = error
    /\ UNCHANGED locals
    /\ UNCHANGED <<setup, uuid, polls, cleanups, result>>
    /\ UNCHANGED <<log_data, printed>>

\* __connect() that takes the process of a queued job and goes on to poll
InitConnect_QueuedProceeds ==
    /\ controller = "__init__"
    /\ pc = "connect"
    /\ \E st \in StatusValues, id \in ProcessIds :
         /\ status' = st
         /\ only_queued' = (st = QUEUED)
         /\ IF st \notin INITIAL_STATUS
              THEN /\ pc' = "raised"
                   /\ error' = "IOError: Unexpected initial status"
                   /\ UNCHANGED <<process, result>>
              ELSE /\ process' = id
                   /\ pc' = "loop"
                   /\ UNCHANGED <<error, result>>
    /\ UNCHANGED locals
    /\ UNCHANGED <<setup, last_log_line, poll_time, uuid, polls, cleanups>>
    /\ UNCHANGED <<log_data, printed>>

\* __init__.py, __connect() after the request and the rest of run(): a status
\* outside INITIAL_STATUS raises, QUEUED makes run() return False, otherwise
\* the process is set and __poll_for_status_and_log() starts
\* (__check_websockets() returns at once, so self.__websocket is None)
InitConnect ==
    /\ controller = "__init__"
    /\ pc = "connect"
    /\ \E st \in StatusValues, id \in ProcessIds :
         /\ status' = st
         /\ only_queued' = (st = QUEUED)
         /\ IF st \notin INITIAL_STATUS
              THEN /\ pc' = "raised"
                   /\ error' = "IOError: Unexpected initial status"
                   /\ UNCHANGED <<process, result>>
              ELSE IF st = QUEUED
              THEN /\ pc' = "returned"
                   /\ result' = "False"
                   /\ UNCHANGED <<process, error>>
              ELSE /\ process' = id
                   /\ pc' = "loop"
                   /\ UNCHANGED <<error, result>>
    /\ UNCHANGED locals
    /\ UNCHANGED <<setup, last_log_line, poll_time, uuid, polls, cleanups>>
    /\ UNCHANGED <<log_data, printed>>

----------------------------------------------------------------------------
(* The poll loop *)

\* the endpoint with the last consumed line for the next one
LogEndpoint_LastLine ==
    IF controller = "__main__"
      THEN [path |-> LOG_ENDPOINT, process |-> process, line |-> last_log_line]
      ELSE [path |-> LOG_ENDPOINT, process |-> process, line |-> NoLine]

\* the endpoint of a status/log request:
\* __main__.py  f'{LOG_ENDPOINT}/{self.__process}/{self.__last_log_line+1}'
\* __init__.py  f'{LOG_ENDPOINT}/{self.__process}'
LogEndpoint ==
    IF controller = "__main__"
      THEN [path |-> LOG_ENDPOINT, process |-> process, line |-> last_log_line + 1]
      ELSE [path |-> LOG_ENDPOINT, process |-> process, line |-> NoLine]

\* while self.__status not in FINISHED_STATUS: request the status and the log
PollRequest ==
    /\ pc = "loop"
    /\ status \notin FINISHED_STATUS
    /\ polls < MaxPolls
    /\ BeginRequest("poll", LogEndpoint)
    /\ polls' = polls + 1
    /\ UNCHANGED <<setup, cleanups, error, result>>
    /\ UNCHANGED job
    /\ log_data' = <<>>
    /\ printed' = <<>>

\* __main__.py: the lines a fragment advances self.__last_log_line by
LinesOf(log) ==
    IF log # <<>> THEN Len(Split(Strip(log))) ELSE 0

\* the poll time after a response with status st (self.__websocket is None)
PollTimeAfter(st) ==
    IF st = QUEUED THEN poll_time ELSE RUNNING_POLL_TIME

\* __main__.py, print(log_lines): the lines of the text written to stdout
MainPrint(log) ==
    IF log # <<>> THEN Split(Strip(log)) ELSE <<>>

\* the check of the status left out
IsUnexpected_Never(st) == FALSE

\* if self.__status == MakerStatus.UNKNOWN: raise IOError('Unexpected response')
IsUnexpected(st) == st = UNKNOWN

\* __main__.py, __check_and_print_log after its request, and the sleep, for a
\* response whose log is one of logs
MainCheckAndPrintLogOf(logs) ==
    /\ controller = "__main__"
    /\ pc = "poll"
    /\ \E st \in StatusValues, log \in logs :
         /\ status' = st
         /\ only_queued' = (only_queued /\ st = QUEUED)
         /\ log_data' = log
         /\ printed' = MainPrint(log)
         /\ poll_time' = PollTimeAfter(st)
         /\ last_log_line' = last_log_line + LinesOf(log)
         /\ IF IsUnexpected(st)
              THEN pc' = "raised" /\ error' = "IOError: Unexpected response"
              ELSE pc' = "loop" /\ error' = error
    /\ UNCHANGED locals
    /\ UNCHANGED <<setup, process, uuid, polls, cleanups, result>>

MainCheckAndPrintLog == MainCheckAndPrintLogOf(Fragments)

\* the level of the record not looked at
CheckLogLine_AnyLevel(record, u) ==
    IF record.msg = "Mapmaker succeeded"
      THEN record.uuid
      ELSE u

\* __init__.py, __check_and_print_log_line: the uuid after one log record
CheckLogLine(record, u) ==
    IF record.level = "critical" /\ record.msg = "Mapmaker succeeded"
      THEN record.uuid
      ELSE u

\* __init__.py, the for loop over log_lines: json.loads of a line raises
\* JSONDecodeError (ok is FALSE) after the lines before it have been handled
RECURSIVE CheckLines(_, _)
CheckLines(log_lines, u) ==
    IF log_lines = <<>> THEN [ok |-> TRUE, uuid |-> u]
    ELSE IF ~JsonLoadsOk(Head(log_lines)) THEN [ok |-> FALSE, uuid |-> u]
    ELSE CheckLines(Tail(log_lines), CheckLogLine(JsonLoads(Head(log_lines)), u))

\* __init__.py, if self.__print_log: print(log_data), over the for loop: the
\* records printed are those of the lines before the first that does not load
RECURSIVE PrintLines(_)
PrintLines(log_lines) ==
    IF log_lines = <<>> \/ ~JsonLoadsOk(Head(log_lines)) THEN <<>>
    ELSE <<JsonLoads(Head(log_lines))>> \o PrintLines(Tail(log_lines))

PrintLog(log) ==
    IF log # <<>> /\ print_log THEN PrintLines(Split(Strip(log))) ELSE <<>>

\* __init__.py, the log of a response: '' is skipped
CheckLog(log, u) ==
    IF log # <<>> THEN CheckLines(Split(Strip(log)), u)
                       ELSE [ok |-> TRUE, uuid |-> u]

\* __init__.py, __check_and_print_log(response) in the poll loop, and the
\* sleep, for a response whose log is one of logs
InitCheckAndPrintLogOf(logs) ==
    /\ controller = "__init__"
    /\ pc = "poll"
    /\ \E st \in StatusValues, log \in logs :
         LET checked == CheckLog(log, uuid) IN
         /\ status' = st
         /\ only_queued' = (only_queued /\ st = QUEUED)
         /\ log_data' = log
         /\ printed' = PrintLog(log)
         /\ poll_time' = PollTimeAfter(st)
         /\ uuid' = checked.uuid
         /\ IF ~checked.ok
              THEN pc' = "raised" /\ error' = "JSONDecodeError"
              ELSE IF IsUnexpected(st)
              THEN pc' = "raised" /\ error' = "IOError: Unexpected response"
              ELSE pc' = "loop" /\ error' = error
    /\ UNCHANGED locals
    /\ UNCHANGED <<setup, process, last_log_line, polls, cleanups, result>>

InitCheckAndPrintLog == InitCheckAndPrintLogOf(Fragments)

----------------------------------------------------------------------------
(* After the poll loop *)

\* run() without the request that deletes the process record
MainCleanup_Skipped ==
    /\ controller = "__main__"
    /\ pc = "loop"
    /\ status \in FINISHED_STATUS
    /\ pc' = "cleanup"
    /\ log_data' = <<>>
    /\ printed' = <<>>
    /\ UNCHANGED locals
    /\ UNCHANGED frame
    /\ UNCHANGED job

\* __main__.py, run(): the loop has ended; request that deletes the process
\* record on the server
MainCleanup ==
    /\ controller = "__main__"
    /\ pc = "loop"
    /\ status \in FINISHED_STATUS
    /\ BeginRequest("cleanup", LogEndpoint)
    /\ cleanups' = cleanups + 1
    /\ UNCHANGED <<setup, polls, error, result>>
    /\ UNCHANGED job
    /\ log_data' = <<>>
    /\ printed' = <<>>

\* __main__.py, run(): return self.__status == MakerStatus.TERMINATED
MainRunResult == IF status = TERMINATED THEN "True" ELSE "False"

MainRunReturn ==
    /\ controller = "__main__"
    /\ pc = "cleanup"
    /\ pc' = "returned"
    /\ result' = MainRunResult
    /\ UNCHANGED locals
    /\ UNCHANGED <<setup, polls, cleanups, error>>
    /\ UNCHANGED job
    /\ UNCHANGED <<log_data, printed>>

\* __init__.py, run(): __poll_for_status_and_log() has returned; return True
InitRunResult == "True"

InitRunReturn ==
    /\ controller = "__init__"
    /\ pc = "loop"
    /\ status \in FINISHED_STATUS
    /\ pc' = "returned"
    /\ result' = InitRunResult
    /\ UNCHANGED locals
    /\ UNCHANGED <<setup, polls, cleanups, error>>
    /\ UNCHANGED job
    /\ log_data' = <<>>
    /\ printed' = <<>>

----------------------------------------------------------------------------

Next ==
    \/ Submit
    \/ RequestTimeout
    \/ RequestResponse
    \/ RequestLoopExit
    \/ RequestRaiseForStatus
    \/ RequestInvalidJson
    \/ RequestReturn
    \/ MainConnect
    \/ InitConnect
    \/ PollRequest
    \/ MainCheckAndPrintLog
    \/ InitCheckAndPrintLog
    \/ MainCleanup
    \/ MainRunReturn
    \/ InitRunReturn

Spec == Init /\ [][Next]_vars

\* the fragments of at most MaxLiveLen tokens
ShortFragments == UNION {[1..n -> Tokens] : n \in 0..MaxLiveLen}

\* __check_and_print_log of either controller, on a response with a short log
LiveCheckAndPrintLog ==
    \/ MainCheckAndPrintLogOf(ShortFragments)
    \/ InitCheckAndPrintLogOf(ShortFragments)

\* every step but the timeout of an attempt: the steps the thread of control
\* takes by itself, and the arrival of a response to an attempt
Progress ==
    \/ Submit
    \/ RequestResponse
    \/ RequestLoopExit
    \/ RequestRaiseForStatus
    \/ RequestInvalidJson
    \/ RequestReturn
    \/ MainConnect
    \/ InitConnect
    \/ PollRequest
    \/ LiveCheckAndPrintLog
    \/ MainCleanup
    \/ MainRunReturn
    \/ InitRunReturn

LiveNext ==
    \/ RequestTimeout
    \/ Progress

\* the program with a thread of control that keeps running and a server that
\* does not let the attempts of a request time out for ever; the logs of the
\* responses are short
LiveSpec == Init /\ [][LiveNext]_vars /\ WF_vars(Progress)

----------------------------------------------------------------------------
(* The websocket of __init__.py *)

\* 0.01 s; the model has no fractions and keeps the text
WS_IDLE_POLL_TIME == "0.01"

\* the records a message from the websocket can carry as its log
LogRecords == {JsonValue(t) : t \in JsonTexts}

\* __check_websockets() with the connection attempt in use (the body that
\* line 170 switches off): connect() returns the connection, or raises and
\* self.__websocket stays None, which leaves the poll loop to run
CheckWebsockets ==
    /\ controller = "__init__"
    /\ pc = "loop"
    /\ polls = 0
    /\ connection = "none"
    /\ \E connected \in BOOLEAN :
         IF connected
           THEN websocket' = "ws" /\ connection' = "open" /\ pc' = "handshake"
           ELSE websocket' = None /\ connection' = "failed" /\ pc' = pc
    /\ UNCHANGED <<controller, print_log, closes, messages>>
    /\ UNCHANGED <<polls, cleanups, error, result>>
    /\ UNCHANGED locals
    /\ UNCHANGED job
    /\ UNCHANGED <<log_data, printed>>

\* __close_websocket()
CloseWebsocket ==
    IF websocket # None
      THEN websocket' = None /\ connection' = "closed" /\ closes' = closes + 1
      ELSE UNCHANGED <<websocket, connection, closes>>

\* the values of the 'status' field of the first message
FirstStatuses == {"connected", "other"}

\* __poll_for_status_and_log, else branch: the first __receive_json().
\* recv times out or the server has closed the connection (response is None),
\* or a message arrives; without {status: 'connected'} the websocket is
\* closed and the method returns, so run() returns True
WsHandshake ==
    /\ pc = "handshake"
    /\ \E outcome \in {"TimeoutError", "ConnectionClosedOK"} \cup FirstStatuses :
         IF outcome = "connected"
           THEN /\ poll_time' = WS_IDLE_POLL_TIME
                /\ pc' = "receive"
                /\ UNCHANGED <<websocket, connection, closes, result>>
           ELSE /\ IF outcome = "ConnectionClosedOK"
                     THEN websocket' = None /\ connection' = "closed" /\ closes' = closes
                     ELSE CloseWebsocket
                /\ pc' = "returned"
                /\ result' = InitRunResult
                /\ UNCHANGED poll_time
    /\ UNCHANGED <<controller, print_log, messages>>
    /\ UNCHANGED <<polls, cleanups, error>>
    /\ UNCHANGED locals
    /\ UNCHANGED <<status, process, last_log_line, uuid, only_queued>>
    /\ UNCHANGED <<log_data, printed>>

\* the loop of the else branch: __receive_json(timeout=0) returns a message,
\* which __check_and_print_log handles as one record, or the server has
\* closed the connection. (A recv that times out sleeps and changes nothing.)
WsReceive ==
    /\ pc = "receive"
    /\ status \notin FINISHED_STATUS
    /\ messages < MaxMessages
    /\ \/ \E st \in StatusValues, log \in {<<>>} \cup LogRecords :
            /\ messages' = messages + 1
            /\ status' = st
            /\ only_queued' = (only_queued /\ st = QUEUED)
            /\ uuid' = IF log # <<>> THEN CheckLogLine(log, uuid) ELSE uuid
            /\ printed' = IF log # <<>> /\ print_log THEN <<log>> ELSE <<>>
            /\ IF IsUnexpected(st)
                 THEN /\ pc' = "raised" /\ error' = "IOError: Unexpected response"
                      /\ UNCHANGED <<websocket, connection, closes, result>>
                 ELSE IF st = QUEUED
                 THEN /\ CloseWebsocket
                      /\ pc' = "returned" /\ result' = InitRunResult
                      /\ error' = error
                 ELSE /\ pc' = pc
                      /\ UNCHANGED <<websocket, connection, closes, result, error>>
       \/ /\ websocket' = None /\ connection' = "closed"
          /\ pc' = "returned" /\ result' = InitRunResult
          /\ UNCHANGED <<closes, messages, status, only_queued, uuid, printed, error>>
    /\ UNCHANGED <<controller, print_log, polls, cleanups>>
    /\ UNCHANGED locals
    /\ UNCHANGED <<process, last_log_line, poll_time, log_data>>

\* the loop of the else branch ends on a finished status; the method returns
\* and run() returns True
WsLoopExit ==
    /\ pc = "receive"
    /\ status \in FINISHED_STATUS
    /\ pc' = "returned"
    /\ result' = InitRunResult
    /\ printed' = <<>>
    /\ UNCHANGED <<setup, polls, cleanups, error>>
    /\ UNCHANGED locals
    /\ UNCHANGED job
    /\ UNCHANGED log_data

\* the controller of __init__.py with the websocket in use
InitWS == Init /\ controller = "__init__"

NextWS ==
    \/ Submit
    \/ RequestTimeout
    \/ RequestResponse
    \/ RequestLoopExit
    \/ RequestRaiseForStatus
    \/ RequestInvalidJson
    \/ RequestReturn
    \/ InitConnect
    \/ CheckWebsockets
    \/ WsHandshake
    \/ WsReceive
    \/ WsLoopExit
    \/ PollRequest
    \/ InitCheckAndPrintLog
    \/ InitRunReturn

SpecWS == InitWS /\ [][NextWS]_vars

----------------------------------------------------------------------------
(* Properties *)

\* a call of __request is under way or has raised out of its own body
InRequest == caller # None

\* the status codes the transport is to retry, and the terminal and the
\* initial statuses, as the specification of the program gives them
RetryableCodes == {502, 503, 504}
TerminalStatuses == {"terminated", "aborted"}
AcceptedAtSubmission == {"queued", "running"}
TransportExhausted == "IOError: Timed out"
UnexpectedInitialStatus == "IOError: Unexpected initial status"

\* C1: a call of __request whose attempts all time out makes at most 5
\* attempts and, once it has failed, has failed with the transport-exhausted
\* error (IOError 'Timed out: No response ...').
C1_TimeoutsAreBounded ==
    (InRequest /\ attempts > 0 /\ timeouts = attempts) =>
        /\ attempts <= 5
        /\ pc = "raised" => error = TransportExhausted

\* C2: with no timeout among the attempts of a call of __request, k <= 4
\* responses with 502/503/504 followed by a 200 whose body is JSON make the
\* call return after k + 1 attempts and k retries; after 5 responses with
\* 502/503/504 the call has made 5 attempts, makes no 6th and cannot return.
C2_RetryBound ==
    (InRequest /\ timeouts = 0) =>
        /\ attempts <= 5
        /\ (pc = "responded" /\ response = 200) =>
               /\ retries <= 4
               /\ attempts = retries + 1
               /\ ENABLED RequestReturn
        /\ (pc # "request" /\ response \in RetryableCodes) =>
               /\ retries = 5
               /\ attempts = 5
               /\ ~ENABLED RequestReturn
               /\ ~ENABLED RequestResponse
        /\ (pc = "request" /\ retries < 5) => ENABLED RequestResponse

\* a call returns after four retries
C2_Witness ==
    /\ pc = "responded" /\ response = 200
    /\ timeouts = 0 /\ retries = 4 /\ attempts = 5

\* C3: a call of __request that fails after 5 consecutive responses with
\* 502/503/504 fails with the transport-exhausted error, not with the error
\* of a non-retryable HTTP error status.
C3_ExhaustedIsTransportExhausted ==
    (InRequest /\ pc = "raised" /\ response \in RetryableCodes /\ retries = 5) =>
        error = TransportExhausted

\* C4: a response with an error status outside 502/503/504 ends the call of
\* __request at that attempt: the loop is left, the next step raises the HTTP
\* error, no attempt and no sleep follows, and the sleeps taken are those
\* after the earlier 502/503/504 responses.
C4_ErrorStatusEnds ==
    (InRequest /\ response >= 400 /\ response \notin RetryableCodes) =>
        /\ pc \in {"responded", "raised"}
        /\ retries < 5
        /\ sleeps = attempts - timeouts - 1
        /\ pc = "raised" => error = "HTTPError"
        /\ pc = "responded" =>
               /\ ENABLED RequestRaiseForStatus
               /\ ~ENABLED RequestResponse
               /\ ~ENABLED RequestTimeout
               /\ ~ENABLED RequestReturn

\* a 404 after two 5xx responses has raised
C4_Witness ==
    /\ pc = "raised" /\ error = "HTTPError"
    /\ response = 404 /\ retries = 2 /\ attempts = 3 /\ sleeps = 2

\* C5: run() returns True exactly when the final status is 'terminated'.
C5_ResultIsTerminated ==
    pc = "returned" => (result = "True" <=> status = "terminated")

\* C6: once the status is 'terminated' or 'aborted' the poll loop issues no
\* status request, handles no response and the status never changes.
C6_TerminalIsFinal ==
    /\ [](status \in TerminalStatuses =>
             /\ pc \notin {"poll", "connect"}
             /\ caller # "poll"
             /\ ~ENABLED PollRequest)
    /\ [][(status \in TerminalStatuses) =>
             (status' = status /\ polls' = polls /\ log_data' \in {log_data, <<>>})]_vars

\* both controllers have left the loop on 'aborted'
C6_Witness ==
    /\ status = "aborted" /\ pc = "returned" /\ polls = 2

\* C7: a job creation response whose status is not 'queued' or 'running'
\* raises 'Unexpected initial status' before a process is stored and before
\* any status/log request; 'queued' and 'running' do not raise it.
C7_InitialStatus ==
    /\ [](error = UnexpectedInitialStatus =>
             /\ pc = "raised"
             /\ status \notin AcceptedAtSubmission
             /\ process = None
             /\ polls = 0 /\ cleanups = 0)
    /\ [][(pc = "connect" /\ pc' # "connect") =>
             (status' \notin AcceptedAtSubmission <=> error' = UnexpectedInitialStatus)]_vars

\* 'terminated' at submission has raised
C7_Witness ==
    /\ error = UnexpectedInitialStatus /\ status = "terminated"

\* the lines of a fragment that hold more than whitespace
NonEmptyLines(log) ==
    Cardinality({i \in 1..Len(Split(log)) : NoSpace(Split(log)[i]) # <<>>})

\* C8: reconciling a poll fragment with N non-empty lines advances the log
\* cursor by exactly N, whatever the fragment; '' leaves it unchanged.
C8_CursorAdvancesByNonEmptyLines ==
    [][(controller = "__main__" /\ pc = "poll" /\ pc' # "poll") =>
           last_log_line' = last_log_line + NonEmptyLines(log_data')]_vars

C11_CleanupFailureIsNotFatal ==
    caller = "cleanup" => pc # "raised"

\* C12: a status/log response with status 'unknown' ends the run with the
\* 'Unexpected response' error whatever its log: nothing follows, and run()
\* returns no value.
C12_UnknownRaisesUnexpectedResponse ==
    (status = "unknown" /\ polls > 0) =>
        /\ pc = "raised"
        /\ error = "IOError: Unexpected response"
        /\ result = NoResult
        /\ ~ENABLED Next

\* C12 as amended: the run ends with an error and nothing follows; the error
\* is 'Unexpected response' unless, in the controller of __init__.py, a line
\* of the log of that response fails to parse, which raises JSONDecodeError
\* before the status is looked at.
C12_UnknownRaises ==
    (status = "unknown" /\ polls > 0) =>
        /\ pc = "raised"
        /\ result = NoResult
        /\ ~ENABLED Next
        /\ error = IF controller = "__init__" /\ ~CheckLog(log_data, None).ok
                     THEN "JSONDecodeError"
                     ELSE "IOError: Unexpected response"

\* 'unknown' in the second response, with a log that parses
C12_Witness ==
    /\ status = "unknown" /\ polls = 2 /\ pc = "raised"
    /\ error = "IOError: Unexpected response" /\ log_data = <<"S1">>

\* the success marker, as the specification of the program gives it
IsSuccessMarker(record) ==
    record.level = "critical" /\ record.msg = "Mapmaker succeeded"

\* the records the reconciler of __init__.py takes from a fragment: those of
\* its lines, up to the first line that is no JSON text
Records(log) ==
    LET lines == IF log = <<>> THEN <<>> ELSE Split(Strip(log))
        n == CHOOSE k \in 0..Len(lines) :
                 /\ \A i \in 1..k : JsonLoadsOk(lines[i])
                 /\ k < Len(lines) => ~JsonLoadsOk(lines[k + 1])
    IN  [i \in 1..n |-> JsonLoads(lines[i])]

\* the uuid after those records: that of the last success marker among them,
\* unchanged without one
UuidAfter(records, u) ==
    LET markers == {i \in DOMAIN records : IsSuccessMarker(records[i])}
    IN  IF markers = {} THEN u
        ELSE records[CHOOSE i \in markers : \A j \in markers : j <= i].uuid

C14_UuidIsImmutable ==
    [][(uuid # None) => (uuid' = uuid)]_vars

C18_QueuedAtSubmission ==
    /\ [](controller = "__init__" =>
            /\ (status = "queued" /\ polls = 0) =>
                   /\ pc = "returned" /\ result = "False"
                   /\ process = None
                   /\ ~ENABLED Next
            /\ polls > 0 => process \in ProcessIds
            /\ caller = "poll" => endpoint.process = process)
    /\ [][controller = "__init__" =>
            /\ (process # None) => (process' = process)
            /\ (process' # process) => (pc = "connect" /\ status' = "running")]_vars

\* run() of __init__.py has returned False for a queued job
C18_Witness ==
    /\ controller = "__init__" /\ status = "queued"
    /\ pc = "returned" /\ result = "False" /\ process = None /\ polls = 0

\* the lines of a fragment that hold more than whitespace, in order
NonBlankLines(log) ==
    SelectSeq(Split(log), LAMBDA line : NoSpace(line) # <<>>)

\* those among the lines written, and lines without their whitespace
Written(lines) ==
    SelectSeq(lines, LAMBDA line : NoSpace(line) # <<>>)

Texts(lines) == [i \in 1..Len(lines) |-> NoSpace(lines[i])]

\* C19: what the handling of a fragment delivers is exactly its non-empty
\* lines, in their order, none dropped, repeated or merged: as lines of text
\* (compared without their whitespace) in __main__.py, and in __init__.py (printing enabled, every such line a
\* JSON record) as the records of those lines.
C19_DeliveredInOrder ==
    [][(pc = "poll") =>
           LET lines == NonBlankLines(log_data') IN
           IF controller = "__main__"
             THEN Texts(Written(printed')) = Texts(lines)
             ELSE (print_log /\ \A i \in 1..Len(lines) : JsonLoadsOk(lines[i])) =>
                      printed' = [i \in 1..Len(lines) |-> JsonLoads(lines[i])]]_vars

\* C20: in __init__.py the handling of a fragment raises the JSON error
\* exactly when a non-empty line of it is no JSON text: such a line ends the
\* run, empty lines are not parsed and raise nothing.
C20_OnlyNonEmptyLinesAreParsed ==
    [][(controller = "__init__" /\ pc = "poll") =>
           ((error' = "JSONDecodeError") <=>
                (\E i \in 1..Len(NonBlankLines(log_data')) :
                     ~JsonLoadsOk(NonBlankLines(log_data')[i])))]_vars

\* the run has ended: run() has returned or an exception has left it
Ended == pc \in {"returned", "raised"}

\* the poll loop is left on a terminal status only (a job queued at
\* submission never enters it in __init__.py), and while it is not left a
\* status that is neither terminal nor 'unknown' has another status/log
\* request, and nothing else, as the next step
LoopLeavesOnTerminalOnly ==
    /\ (caller = "cleanup" \/ pc = "returned") =>
           \/ status \in TerminalStatuses
           \/ controller = "__init__" /\ polls = 0 /\ status = "queued"
    /\ (pc = "loop" /\ status \notin TerminalStatuses) =>
           /\ polls < MaxPolls => ENABLED PollRequest
           /\ ~ENABLED (MainCleanup \/ InitRunReturn)

\* C21: with every attempt of a request answered, run() returns once the
\* poll loop has taken a response that reports 'terminated' or 'aborted';
\* the loop is left on such a status or by an exception only, any other
\* status leads to another status/log request.
C21_RunReturns ==
    /\ (status \in TerminalStatuses /\ pc = "loop")
           ~> (pc = "returned" \/ error \in Timeouts)
    /\ []LoopLeavesOnTerminalOnly

\* what holds of both controllers: after such a response the run ends, by
\* return or by exception
RunEnds ==
    /\ (status \in TerminalStatuses /\ polls > 0) ~> Ended
    /\ []LoopLeavesOnTerminalOnly

====
